---- MODULE Spec2Model ----
(***************************************************************************)
(* Model of rllib/utils/replay_buffers/storage.py: the ring buffer         *)
(* LocalStorage with its in-memory backend InMemoryStorage, the read-only  *)
(* StorageView, and the snapshot / restore pair get_state / set_state.     *)
(***************************************************************************)
EXTENDS Integers, Sequences, FiniteSets, TLC

(* ---------------- bounds of the model ---------------- *)
MaxCapItems == 3
MaxCapTs == 2
MaxCapBytes == 1
MaxCount == 2
MaxBytes == 1
MaxItems == 4
MaxGets == 2
MaxSnapItems == 3
MaxViewLen == 10
MaxSliceArg == 11
MaxStep == 3

(* math.inf, the default of capacity_ts and capacity_bytes: a sentinel that *)
(* is only ever looked at by Exceeds.                                       *)
Inf == -1

(* available memory (bytes) reported by psutil.virtual_memory() *)
AvailSet == {1, 100}

CapItemsSet == 1..MaxCapItems
CapTsSet == {1, MaxCapTs, Inf}
CapBytesSet == {MaxCapBytes, Inf}

(* The empty marker of a slot (Python None); real items have id >= 1. *)
None == [id |-> 0, count |-> 0, bytes |-> 0]

(* An item: identity, item.count and item.size_bytes(). *)
ItemShapes == [count : 0..MaxCount, bytes : 1..MaxBytes]

MkItem(n, sh) == [id |-> n, count |-> sh.count, bytes |-> sh.bytes]

VARIABLES
  capacity_ts, capacity_items, capacity_bytes,
  eviction_started, num_items, oldest_item_idx,
  num_timesteps_added, num_timesteps,
  hit_count, evicted_hit_stats, size_bytes,
  samples,
  snap,
  last,
  accepted, num_offered, num_gets, only_adds, all_ok,
  view, chain,
  num_add_calls, num_evicted, num_res_offers, num_overwrites,
  conc, tr

storageVars == <<capacity_ts, capacity_items, capacity_bytes,
                 eviction_started, num_items, oldest_item_idx,
                 num_timesteps_added, num_timesteps,
                 hit_count, evicted_hit_stats, size_bytes, samples>>

ghostVars == <<accepted, num_offered, num_gets, only_adds, all_ok>>

(* ReservoirBuffer._num_add_calls, _num_evicted; ghosts: the number of     *)
(* items offered to the buffer and of those a returning set has stored     *)
resVars == <<num_add_calls, num_evicted, num_res_offers, num_overwrites>>

(* conc: the add calls in progress on two threads; tr: the last index      *)
(* translation that was computed                                           *)
auxVars == <<conc, tr>>

vars == <<storageVars, snap, last, ghostVars, view, chain, resVars, auxVars>>

(* ---------------- helpers ---------------- *)

(* x > cap for a capacity that may be math.inf *)
Exceeds(x, cap) == cap # Inf /\ x > cap

Max(a, b) == IF a >= b THEN a ELSE b

Zeros(n) == [k \in 0..(n - 1) |-> 0]

NoSamples(n) == [k \in 0..(n - 1) |-> None]

(* The fields of the storage gathered in one record, so that a handler can  *)
(* be computed as a function from storage to storage.  exc is the exception *)
(* the handler is leaving with ("none" while it is running normally).       *)
Cur ==
  [ct |-> capacity_ts, ci |-> capacity_items, cb |-> capacity_bytes,
   es |-> eviction_started, ni |-> num_items, old |-> oldest_item_idx,
   nta |-> num_timesteps_added, nts |-> num_timesteps,
   hc |-> hit_count, ehs |-> evicted_hit_stats, sb |-> size_bytes,
   smp |-> samples, exc |-> "none"]

Commit(s) ==
  /\ capacity_ts' = s.ct
  /\ capacity_items' = s.ci
  /\ capacity_bytes' = s.cb
  /\ eviction_started' = s.es
  /\ num_items' = s.ni
  /\ oldest_item_idx' = s.old
  /\ num_timesteps_added' = s.nta
  /\ num_timesteps' = s.nts
  /\ hit_count' = s.hc
  /\ evicted_hit_stats' = s.ehs
  /\ size_bytes' = s.sb
  /\ samples' = s.smp

NoLast ==
  [op |-> "init", i |-> 0, item |-> None, exc |-> "none", ret |-> None,
   warn |-> FALSE, dropped |-> 0]

(* LocalStorage._get_internal_index *)
get_internal_index(s, idx) == (s.old + idx) % Max(1, s.ci)

(* _get_external_index without the wrap-around branch *)
get_external_index_no_wrap(s, idx) == idx - s.old

(* LocalStorage._get_external_index *)
get_external_index(s, idx) ==
  IF idx >= s.old THEN idx - s.old ELSE idx + s.ci - s.old

(* The logical contents: the items at logical indices 0 .. num_items-1. *)
Contents(s) == [k \in 1..s.ni |-> s.smp[get_internal_index(s, k - 1)]]

(* InMemoryStorage._warn_replay_capacity: the exception it raises, if any.  *)
(* remainder > free_gb, with both sides scaled by 1e9 and by item.count.    *)
(* (The diagnostic attribute est_final_size it also sets is not modelled.)  *)
warn_replay_capacity(s, item, avail) ==
  IF item.count = 0 THEN "ZeroDivisionError"
  ELSE IF \/ s.ci * item.bytes - s.sb > avail
          \/ /\ s.ct # Inf
             /\ s.ct * item.bytes - s.sb * item.count > avail * item.count
       THEN "ValueError"
       ELSE "none"

(* InMemoryStorage._set *)
set_slot(s, idx, item, avail) ==
  LET g == warn_replay_capacity(s, item, avail)
  IN IF g # "none" THEN [s EXCEPT !.exc = g]
     ELSE [s EXCEPT !.smp[idx] = item]

(* InMemoryStorage.__delitem__ (the removed item is s.smp[i] before it) *)
delitem(s, i) ==
  [s EXCEPT !.smp[i] = None,
            !.ehs = Append(@, s.hc[i]),
            !.hc[i] = 0]

(* the loop condition with > in place of >= on the item count *)
EvictCondStrict(s) ==
  \/ Exceeds(s.nts, s.ct)
  \/ Exceeds(s.sb, s.cb)
  \/ s.ni > s.ci

(* the condition of the eviction loop of LocalStorage.add *)
EvictCond(s) ==
  \/ Exceeds(s.nts, s.ct)
  \/ Exceeds(s.sb, s.cb)
  \/ s.ni >= s.ci

(* the loop body without the advance of oldest_item_idx *)
EvictBodyNoAdvance(s) ==
  IF ~(s.ni > 0) THEN [s EXCEPT !.exc = "AssertionError"]
  ELSE
    LET s1 == [s EXCEPT !.es = TRUE,
                        !.ehs = Append(@, s.hc[s.old]),
                        !.hc[s.old] = 0]
        drop_item == s1.smp[s1.old]
        s2 == delitem(s1, s1.old)
    IN IF drop_item = None THEN [s2 EXCEPT !.exc = "AttributeError"]
       ELSE [s2 EXCEPT !.nts = @ - drop_item.count,
                       !.sb = @ - drop_item.bytes,
                       !.ni = @ - 1]

(* one pass through the body of the eviction loop *)
EvictBody(s) ==
  IF ~(s.ni > 0) THEN [s EXCEPT !.exc = "AssertionError"]
  ELSE
    LET s1 == [s EXCEPT !.es = TRUE,
                        !.ehs = Append(@, s.hc[s.old]),
                        !.hc[s.old] = 0]
        drop_item == s1.smp[s1.old]
        s2 == delitem(s1, s1.old)
    IN IF drop_item = None THEN [s2 EXCEPT !.exc = "AttributeError"]
       ELSE LET s3 == [s2 EXCEPT !.nts = @ - drop_item.count,
                                 !.sb = @ - drop_item.bytes,
                                 !.ni = @ - 1]
            IN [s3 EXCEPT !.old = get_internal_index(s3, 1)]

(* an `if` in place of the `while`: at most one eviction per add *)
EvictLoopOnce(s) ==
  IF s.exc # "none" \/ ~EvictCond(s) THEN s
  ELSE EvictBody(s)

RECURSIVE EvictLoop(_)
EvictLoop(s) ==
  IF s.exc # "none" \/ ~EvictCond(s) THEN s
  ELSE EvictLoop(EvictBody(s))

(* add with eviction_started set to whether this call evicted *)
AddAcceptedFlagPerCall(s, item, avail) ==
  LET s1 == [s EXCEPT !.nta = @ + item.count,
                      !.nts = @ + item.count,
                      !.sb = @ + item.bytes]
      s2 == [EvictLoop(s1) EXCEPT !.es = (Len(EvictLoop(s1).ehs) > Len(s.ehs))]
  IN IF s2.exc # "none" THEN s2
     ELSE LET new_idx == get_internal_index(s2, s2.ni)
              s3 == set_slot(s2, new_idx, item, avail)
          IN IF s3.exc # "none" THEN s3
             ELSE LET s4 == [s3 EXCEPT !.ni = @ + 1]
                  IN IF s4.ni <= s4.ci THEN s4
                     ELSE [s4 EXCEPT !.exc = "AssertionError"]

(* LocalStorage.add, lines 254-284 (after the oversize check) *)
AddAccepted(s, item, avail) ==
  LET s1 == [s EXCEPT !.nta = @ + item.count,
                      !.nts = @ + item.count,
                      !.sb = @ + item.bytes]
      s2 == EvictLoop(s1)
  IN IF s2.exc # "none" THEN s2
     ELSE LET new_idx == get_internal_index(s2, s2.ni)
              s3 == set_slot(s2, new_idx, item, avail)
          IN IF s3.exc # "none" THEN s3
             ELSE LET s4 == [s3 EXCEPT !.ni = @ + 1]
                  IN IF s4.ni <= s4.ci THEN s4
                     ELSE [s4 EXCEPT !.exc = "AssertionError"]

(* add without the check of item.count against capacity_items *)
AddResultNoReject(s, item, avail) == AddAccepted(s, item, avail)

(* LocalStorage.add *)
AddResult(s, item, avail) ==
  IF item.count > s.ci THEN [s EXCEPT !.exc = "rejected"]
  ELSE AddAccepted(s, item, avail)

(* ---------------- the storage as a state machine ---------------- *)

InitStorage ==
  /\ capacity_items \in CapItemsSet
  /\ capacity_ts \in CapTsSet
  /\ capacity_bytes \in CapBytesSet
  /\ eviction_started = FALSE
  /\ num_items = 0
  /\ oldest_item_idx = 0
  /\ num_timesteps_added = 0
  /\ num_timesteps = 0
  /\ hit_count = Zeros(capacity_items)
  /\ evicted_hit_stats = <<>>
  /\ size_bytes = 0
  /\ samples = NoSamples(capacity_items)
  /\ snap = <<>>
  /\ last = NoLast
  /\ accepted = <<>>
  /\ num_offered = 0
  /\ num_gets = 0
  /\ only_adds = TRUE
  /\ all_ok = TRUE

(* no view has been taken; ReservoirBuffer.__init__, lines 37-38 *)
InitRest ==
  /\ chain = <<>>
  /\ num_add_calls = 0
  /\ num_evicted = 0
  /\ num_res_offers = 0
  /\ num_overwrites = 0
  /\ tr = <<>>

Init ==
  /\ InitStorage
  /\ InitRest
  /\ view = <<>>
  /\ conc = <<>>

Running == last.exc # "diverges"

(* an exception leaves the handler *)
Raised(exc) == exc \notin {"none", "rejected"}

AddN(limit) ==
  /\ Running
  /\ num_offered < limit
  /\ \E sh \in ItemShapes, avail \in AvailSet :
       LET item == MkItem(num_offered + 1, sh)
           r == AddResult(Cur, item, avail)
       IN /\ Commit(r)
          /\ last' = [op |-> "add", i |-> 0, item |-> item,
                      exc |-> r.exc, ret |-> None,
                      warn |-> (r.exc = "rejected"),
                      dropped |-> (Len(r.ehs) - Len(evicted_hit_stats)) \div 2]
          /\ accepted' = IF r.exc = "none" THEN Append(accepted, item.id)
                         ELSE accepted
          /\ all_ok' = (all_ok /\ ~Raised(r.exc))
  /\ num_offered' = num_offered + 1
  /\ UNCHANGED <<snap, num_gets, only_adds, view, chain, resVars, auxVars>>

Add == AddN(MaxItems)

(* the two normalisation loops of LocalStorage.__getitem__, for len > 0 *)
RECURSIVE WrapUp(_, _)
WrapUp(i, n) == IF i < 0 THEN WrapUp(i + n, n) ELSE i

RECURSIVE WrapDown(_, _)
WrapDown(i, n) == IF i >= n THEN WrapDown(i - n, n) ELSE i

(* __getitem__ counting the hit at the logical instead of the physical index *)
GetResultRawIndex(s, key) ==
  IF s.ni = 0 THEN [s EXCEPT !.exc = "diverges"]
  ELSE LET i == WrapDown(WrapUp(key, s.ni), s.ni)
       IN [s EXCEPT !.hc[i] = @ + 1]

(* LocalStorage.__getitem__ with an integer key.  With len(self) = 0 one of *)
(* the two loops never ends (i += 0 or i -= 0): the call does not return.   *)
GetResult(s, key) ==
  IF s.ni = 0 THEN [s EXCEPT !.exc = "diverges"]
  ELSE LET i == WrapDown(WrapUp(key, s.ni), s.ni)
           idx == get_internal_index(s, i)
       IN [s EXCEPT !.hc[idx] = @ + 1]

GetReturn(s, key) ==
  s.smp[get_internal_index(s, WrapDown(WrapUp(key, s.ni), s.ni))]

GetKeys == (0 - 1)..MaxCapItems

Get ==
  /\ Running
  /\ num_gets < MaxGets
  /\ num_gets' = num_gets + 1
  /\ \E key \in GetKeys :
       LET r == GetResult(Cur, key)
       IN /\ Commit(r)
          /\ last' = [op |-> "get", i |-> key, item |-> None, exc |-> r.exc,
                      ret |-> IF r.exc = "none" THEN GetReturn(Cur, key)
                              ELSE None,
                      warn |-> FALSE, dropped |-> 0]
          /\ all_ok' = (all_ok /\ ~Raised(r.exc))
  /\ UNCHANGED <<snap, accepted, num_offered, only_adds, view, chain, resVars, auxVars>>

(* __setitem__ without the update of the lifetime counter *)
SetCheckedNoLifetime(s, i, item, avail) ==
  LET idx == get_internal_index(s, i)
      drop_item == s.smp[idx]
      s1 == delitem(s, idx)
  IN IF drop_item = None THEN [s1 EXCEPT !.exc = "AttributeError"]
     ELSE LET s2 == [s1 EXCEPT !.ehs = Append(@, s1.hc[idx]),
                               !.nts = (@ - drop_item.count) + item.count,
                               !.sb = (@ - drop_item.bytes) + item.bytes,
                               !.hc[idx] = 0]
          IN set_slot(s2, idx, item, avail)

(* LocalStorage.__setitem__, lines 219-233 (after the three checks) *)
SetChecked(s, i, item, avail) ==
  LET idx == get_internal_index(s, i)
      drop_item == s.smp[idx]
      s1 == delitem(s, idx)
  IN IF drop_item = None THEN [s1 EXCEPT !.exc = "AttributeError"]
     ELSE LET s2 == [s1 EXCEPT !.ehs = Append(@, s1.hc[idx]),
                               !.nts = (@ - drop_item.count) + item.count,
                               !.sb = (@ - drop_item.bytes) + item.bytes,
                               !.hc[idx] = 0,
                               !.nta = @ + item.count]
          IN set_slot(s2, idx, item, avail)

(* __setitem__ without the check of eviction_started *)
SetResultNoStateCheck(s, i, item, avail) ==
  IF i >= s.ni \/ i < 0 THEN [s EXCEPT !.exc = "IndexError"]
  ELSE SetChecked(s, i, item, avail)

(* LocalStorage.__setitem__ with an integer index *)
SetResult(s, i, item, avail) ==
  IF i >= s.ni \/ i < 0 THEN [s EXCEPT !.exc = "IndexError"]
  ELSE IF ~s.es THEN [s EXCEPT !.exc = "RuntimeError"]
  ELSE SetChecked(s, i, item, avail)

(* the warning logged for a replacement with fewer timesteps *)
SetWarnsFewer(s, i, item) ==
  /\ 0 <= i /\ i < s.ni /\ s.es
  /\ s.smp[get_internal_index(s, i)] # None
  /\ s.smp[get_internal_index(s, i)].count > item.count

(* the warning of line 222 is logged *)
SetWarns(s, i, item) ==
  /\ 0 <= i /\ i < s.ni /\ s.es
  /\ s.smp[get_internal_index(s, i)] # None
  /\ s.smp[get_internal_index(s, i)].count < item.count

SetKeys == (0 - 1)..MaxCapItems

SetN(limit) ==
  /\ Running
  /\ num_offered < limit
  /\ \E i \in SetKeys, sh \in ItemShapes, avail \in AvailSet :
       LET item == MkItem(num_offered + 1, sh)
           r == SetResult(Cur, i, item, avail)
       IN /\ Commit(r)
          /\ last' = [op |-> "set", i |-> i, item |-> item, exc |-> r.exc,
                      ret |-> None, warn |-> SetWarns(Cur, i, item),
                      dropped |-> 0]
          /\ all_ok' = (all_ok /\ ~Raised(r.exc))
  /\ num_offered' = num_offered + 1
  /\ only_adds' = FALSE
  /\ UNCHANGED <<snap, accepted, num_gets, view, chain, resVars, auxVars>>

Set == SetN(MaxItems)

(* LocalStorage.get_state + InMemoryStorage.get_state.  The dict holds the  *)
(* list object self._samples itself, not a copy of it: the entry "_samples" *)
(* is a reference, and what it shows is the list's content when it is read. *)
(* g_samples and g_hit_count are ghost fields: the slots and the hit counts *)
(* at the time of the snapshot.                                             *)
StateDict(s) ==
  [ct |-> s.ct, ci |-> s.ci, cb |-> s.cb, ni |-> s.ni, old |-> s.old,
   es |-> s.es, nta |-> s.nta, nts |-> s.nts, sb |-> s.sb,
   samples_ref |-> "self._samples",
   g_samples |-> s.smp, g_hit_count |-> s.hc]

GetState ==
  /\ Running
  /\ snap' = <<StateDict(Cur)>>
  /\ last' = [op |-> "get_state", i |-> 0, item |-> None, exc |-> "none",
              ret |-> None, warn |-> FALSE, dropped |-> 0]
  /\ UNCHANGED <<storageVars, ghostVars, view, chain, resVars, auxVars>>

(* set_state without the fresh hit-count array *)
SetStateKeepHits(s, d) ==
  [s EXCEPT !.ct = d.ct, !.ci = d.ci, !.cb = d.cb, !.ni = d.ni,
            !.old = d.old, !.es = d.es, !.nta = d.nta, !.nts = d.nts,
            !.sb = d.sb]

(* InMemoryStorage.set_state + LocalStorage.set_state: self._samples becomes *)
(* the list the dict refers to, which is the list the storage already has.   *)
SetStateResult(s, d) ==
  [s EXCEPT !.ct = d.ct, !.ci = d.ci, !.cb = d.cb, !.ni = d.ni,
            !.old = d.old, !.es = d.es, !.nta = d.nta, !.nts = d.nts,
            !.sb = d.sb, !.hc = Zeros(d.ci)]

SetState ==
  /\ Running
  /\ \E k \in 1..Len(snap) :
       /\ Commit(SetStateResult(Cur, snap[k]))
       /\ last' = [op |-> "set_state", i |-> k, item |-> None, exc |-> "none",
                   ret |-> None, warn |-> FALSE, dropped |-> 0]
  /\ only_adds' = FALSE
  /\ UNCHANGED <<snap, accepted, num_offered, num_gets, all_ok, view, chain, resVars, auxVars>>

Next == Add \/ Get \/ Set

Spec == Init /\ [][Next]_vars

(* ---------------- the storage with snapshots ---------------- *)

AddS == AddN(MaxSnapItems)

SetS == SetN(MaxSnapItems)

NextSnap == AddS \/ Get \/ SetS \/ GetState \/ SetState

SpecSnap == Init /\ [][NextSnap]_vars

(* ---------------- StorageView.__init__ ---------------- *)

(* A component of a slice: <<>> when omitted (None), <<k>> for the integer k *)
OptInts(lo, hi) == {<<>>} \cup {<<k>> : k \in lo..hi}

(* Python's `x or d` for x an integer or None *)
OrDefault(x, d) == IF x = <<>> THEN d ELSE IF x[1] = 0 THEN d ELSE x[1]

(* list(range(start, stop, step)), step # 0 *)
PyRange(start, stop, step) ==
  LET n == IF step > 0
           THEN (IF start < stop THEN (stop - start + step - 1) \div step
                 ELSE 0)
           ELSE (IF start > stop THEN (start - stop - step - 1) \div (0 - step)
                 ELSE 0)
  IN [k \in 1..n |-> start + (k - 1) * step]

(* StorageView.__init__: self._idx_map for a parent of length n *)
StorageViewInit(n, sl) ==
  LET step == OrDefault(sl.step, 1)
      start == IF step > 0 THEN OrDefault(sl.start, 0)
               ELSE OrDefault(sl.start, n - 1)
      stop0 == IF step > 0 THEN OrDefault(sl.stop, n)
               ELSE OrDefault(sl.stop, 0 - (n + 1))
      stop == IF step < 0 /\ sl.stop = <<>> THEN stop0 + n ELSE stop0
  IN PyRange(start, stop, step)

Slices ==
  [start : OptInts(0 - MaxSliceArg, MaxSliceArg),
   stop : OptInts(0 - MaxSliceArg, MaxSliceArg),
   step : OptInts(0 - MaxStep, MaxStep)]

InitView ==
  /\ InitStorage
  /\ InitRest
  /\ conc = <<>>
  /\ capacity_items = 1
  /\ capacity_ts = Inf
  /\ capacity_bytes = Inf
  /\ view \in [len : 0..MaxViewLen, slice : Slices, built : {FALSE},
                idx_map : {<<>>}]

(* storage[slice] on a parent of length view.len *)
BuildView ==
  /\ ~view.built
  /\ view' = [view EXCEPT !.built = TRUE,
                          !.idx_map = StorageViewInit(view.len, view.slice)]
  /\ UNCHANGED <<storageVars, snap, last, ghostVars, chain, resVars, auxVars>>

NextView == BuildView

SpecView == InitView /\ [][NextView]_vars

(* ---------------- operations on a StorageView ---------------- *)

MaxVItems == 2
MaxDepth == 2
MaxVArg == 1
MaxVStep == 1

(* chain[1] is the index list of a view of the storage, chain[k + 1] that  *)
(* of a view of the view chain[k] (StorageView(self, s), line 466)         *)
ViewSlices ==
  [start : OptInts(0 - MaxVArg, MaxVArg),
   stop : OptInts(0 - MaxVArg, MaxVArg),
   step : OptInts(0 - MaxVStep, MaxVStep)]

(* len() of the object the next view is taken of *)
TopLen(ch, n) == IF ch = <<>> THEN n ELSE Len(ch[Len(ch)])

ViewOp(op, key, exc, ret) ==
  [op |-> op, i |-> key, item |-> None, exc |-> exc, ret |-> ret,
   warn |-> FALSE, dropped |-> 0]

(* storage[slice], view[slice] *)
MakeView ==
  /\ Running
  /\ Len(chain) < MaxDepth
  /\ \E sl \in ViewSlices :
       chain' = Append(chain, StorageViewInit(TopLen(chain, num_items), sl))
  /\ last' = ViewOp("view", 0, "none", None)
  /\ UNCHANGED <<storageVars, snap, ghostVars, view, resVars, auxVars>>

(* StorageView.__len__ *)
ViewLen ==
  /\ Running
  /\ chain # <<>>
  /\ last' = ViewOp("view_len", Len(chain[Len(chain)]), "none", None)
  /\ UNCHANGED <<storageVars, snap, ghostVars, view, chain, resVars, auxVars>>

(* StorageView.__getitem__ down to the storage: the key handed to the      *)
(* storage's own __getitem__, or no key when a view on the way is empty    *)
(* (its two loops add or subtract len(self) = 0 and never end)             *)
RECURSIVE ViewIndex(_, _, _)
ViewIndex(ch, k, key) ==
  IF k = 0 THEN <<key>>
  ELSE IF Len(ch[k]) = 0 THEN <<>>
  ELSE LET i == WrapDown(WrapUp(key, Len(ch[k])), Len(ch[k]))
       IN ViewIndex(ch, k - 1, ch[k][i + 1])

(* an indexed read of a view that counts the hit once per view as well *)
ViewGetResultDoubleCount(s, ch, key) ==
  LET idx == ViewIndex(ch, Len(ch), key)
  IN IF idx = <<>> THEN [s EXCEPT !.exc = "diverges"]
     ELSE GetResult(GetResult(s, idx[1]), idx[1])

(* self._storage[idx], lines 462-463 *)
ViewGetResult(s, ch, key) ==
  LET idx == ViewIndex(ch, Len(ch), key)
  IN IF idx = <<>> THEN [s EXCEPT !.exc = "diverges"]
     ELSE GetResult(s, idx[1])

ViewKeys == (0 - 1)..MaxVArg

ViewGet ==
  /\ Running
  /\ chain # <<>>
  /\ num_gets < MaxGets
  /\ num_gets' = num_gets + 1
  /\ \E key \in ViewKeys :
       LET r == ViewGetResult(Cur, chain, key)
       IN /\ Commit(r)
          /\ last' = ViewOp("view_get", key, r.exc,
                            IF r.exc = "none"
                            THEN GetReturn(Cur, ViewIndex(chain, Len(chain), key)[1])
                            ELSE None)
          /\ all_ok' = (all_ok /\ ~Raised(r.exc))
  /\ UNCHANGED <<snap, accepted, num_offered, only_adds, view, chain, resVars, auxVars>>

ViewMutators ==
  {"view_add", "view_set", "view_del", "view_get_state", "view_set_state"}

(* a view that hands add to its parent *)
ViewRejectForward(s, op, item, avail) ==
  IF op = "view_add" THEN AddResult(s, item, avail)
  ELSE [s EXCEPT !.exc = "RuntimeError"]

(* StorageView.add, __setitem__, __delitem__, get_state, set_state *)
ViewReject(s, op, item, avail) == [s EXCEPT !.exc = "RuntimeError"]

ViewMutate ==
  /\ Running
  /\ chain # <<>>
  /\ \E op \in ViewMutators, sh \in ItemShapes, avail \in AvailSet :
       LET r == ViewReject(Cur, op, MkItem(num_offered + 1, sh), avail)
       IN /\ Commit(r)
          /\ last' = ViewOp(op, 0, r.exc, None)
          /\ all_ok' = (all_ok /\ ~Raised(r.exc))
  /\ UNCHANGED <<snap, accepted, num_offered, num_gets, only_adds, view,
                 chain, resVars, auxVars>>

AddV == AddN(MaxVItems)

NextViewOps == AddV \/ MakeView \/ ViewLen \/ ViewGet \/ ViewMutate

(* a storage bounded in items only, as the views never look at the caps *)
InitViewOps ==
  /\ Init
  /\ capacity_ts = Inf
  /\ capacity_bytes = Inf

SpecViewOps == InitViewOps /\ [][NextViewOps]_vars

(* ---------------- ReservoirBuffer ---------------- *)

MaxResItems == 4

(* ReplayBuffer._add_single_batch(self, item, **kwargs) hands the item to  *)
(* the storage's add.  args are the positional arguments of the call: the  *)
(* function is reached through the class, so nothing is bound for it.      *)
ReplayBuffer_add_single_batch(s, args, avail) ==
  IF Len(args) # 2 THEN [s EXCEPT !.exc = "TypeError"]
  ELSE AddResult(s, args[2], avail)

(* random.randint(0, self._num_add_calls - 1), the counter already raised *)
ResDraws(n) == 0..(n - 1)

(* ReservoirBuffer._add_single_batch, lines 56-62, for the drawn index idx: *)
(* the storage it leaves and the value of _num_evicted                      *)
ResOfferResult(s, ne, idx, item, avail) ==
  IF s.es
  THEN IF idx < s.ni
       THEN [st |-> SetResult(s, idx, item, avail), ne |-> ne + 1]
       ELSE [st |-> s, ne |-> ne]
  ELSE [st |-> ReplayBuffer_add_single_batch(s, <<item>>, avail), ne |-> ne]

ResOffer ==
  /\ Running
  /\ num_offered < MaxResItems
  /\ \E sh \in ItemShapes, avail \in AvailSet,
        idx \in ResDraws(num_add_calls + 1) :
       LET item == MkItem(num_offered + 1, sh)
           r == ResOfferResult(Cur, num_evicted, idx, item, avail)
           took_set == eviction_started /\ idx < num_items
       IN /\ Commit(r.st)
          /\ num_evicted' = r.ne
          /\ last' = [op |-> "offer", i |-> idx, item |-> item,
                      exc |-> r.st.exc, ret |-> None, warn |-> FALSE,
                      dropped |-> 0]
          /\ num_overwrites' = IF took_set /\ r.st.exc = "none"
                               THEN num_overwrites + 1 ELSE num_overwrites
          /\ all_ok' = (all_ok /\ ~Raised(r.st.exc))
  /\ num_add_calls' = num_add_calls + 1
  /\ num_res_offers' = num_res_offers + 1
  /\ num_offered' = num_offered + 1
  /\ only_adds' = FALSE
  /\ UNCHANGED <<snap, accepted, num_gets, view, chain, auxVars>>

(* add called on the storage of the buffer *)
AddR == AddN(MaxResItems)

NextRes == ResOffer \/ AddR

SpecRes == Init /\ [][NextRes]_vars

(* every item so far was offered to the buffer, none added to its storage *)
OnlyOffers == num_offered = num_res_offers

(* ---------------- indexed reads of a storage and of its views ---------------- *)

NextRead == AddV \/ Get \/ MakeView \/ ViewGet

SpecRead == InitViewOps /\ [][NextRead]_vars

(* ---------------- the index translations ---------------- *)

MaxIdxItems == 3
MaxNegArg == 2

(* a call of _get_internal_index: the exception it raises or the value it  *)
(* returns (lines 296-298)                                                 *)
internal_index_call(s, idx) ==
  IF idx < 0 THEN [exc |-> "IndexError", val |-> 0]
  ELSE [exc |-> "none", val |-> get_internal_index(s, idx)]

(* a call of _get_external_index (lines 310-315) *)
external_index_call(s, idx) ==
  IF idx < 0 THEN [exc |-> "IndexError", val |-> 0]
  ELSE [exc |-> "none", val |-> get_external_index(s, idx)]

(* one translation after the other; the first exception ends it *)
ThenExternal(s, r) == IF r.exc # "none" THEN r ELSE external_index_call(s, r.val)

ThenInternal(s, r) == IF r.exc # "none" THEN r ELSE internal_index_call(s, r.val)

TrArgs == (0 - MaxNegArg)..MaxCapItems

(* both translations, and both round trips, of the argument arg in a       *)
(* storage whose oldest item is in slot old                                *)
Translate ==
  /\ Running
  /\ \E o \in 0..(capacity_items - 1), arg \in TrArgs :
       LET s == [Cur EXCEPT !.old = o]
       IN tr' = [old |-> o, arg |-> arg,
                 int |-> internal_index_call(s, arg),
                 ext |-> external_index_call(s, arg),
                 ext_of_int |-> ThenExternal(s, internal_index_call(s, arg)),
                 int_of_ext |-> ThenInternal(s, external_index_call(s, arg))]
  /\ UNCHANGED <<storageVars, snap, last, ghostVars, view, chain, resVars, conc>>

AddI == AddN(MaxIdxItems)

SetI == SetN(MaxIdxItems)

NextIdx == AddI \/ SetI \/ Translate

SpecIdx == Init /\ [][NextIdx]_vars

(* ---------------- add calls on two threads ---------------- *)

MaxConcItems == 3

Threads == {1, 2}

(* A thread is idle or inside add, before the statement its pc names:      *)
(* "counters" lines 244-256, "loop" the test and one pass of the loop of   *)
(* lines 261-276, "index" line 281, "set" line 282, "inc" lines 283-284.   *)
(* new_idx is the local variable of that name.                             *)
IdleThread == [pc |-> "idle", item |-> None, new_idx |-> 0]

(* conc.mutex: the callers run every add as one critical section;          *)
(* conc.holder: the thread in the critical section (0: none);              *)
(* conc.clobbered (ghost): line 282 has written a slot that held an item   *)
InitConc ==
  /\ InitStorage
  /\ InitRest
  /\ view = <<>>
  /\ conc \in [mutex : BOOLEAN, holder : {0}, clobbered : {FALSE},
               th : {[p \in Threads |-> IdleThread]}]

(* the thread leaves add, normally or with the exception exc *)
Leave(p, c, exc) ==
  /\ conc' = [c EXCEPT !.th[p] = IdleThread, !.holder = 0]
  /\ last' = [op |-> "add", i |-> p, item |-> conc.th[p].item, exc |-> exc,
              ret |-> None, warn |-> (exc = "rejected"), dropped |-> 0]
  /\ accepted' = IF exc = "none" THEN Append(accepted, conc.th[p].item.id)
                 ELSE accepted
  /\ all_ok' = (all_ok /\ ~Raised(exc))

(* the thread goes on to the statement at pc *)
Goto(p, c, pc) ==
  /\ conc' = [c EXCEPT !.th[p].pc = pc]
  /\ UNCHANGED <<last, accepted, all_ok>>

(* storage.add(item) is called on thread p *)
CallAdd(p) ==
  /\ Running
  /\ conc.th[p].pc = "idle"
  /\ conc.mutex => conc.holder = 0
  /\ num_offered < MaxConcItems
  /\ \E sh \in ItemShapes :
       conc' = [conc EXCEPT !.th[p] = [pc |-> "counters",
                                       item |-> MkItem(num_offered + 1, sh),
                                       new_idx |-> 0],
                            !.holder = IF conc.mutex THEN p ELSE 0]
  /\ num_offered' = num_offered + 1
  /\ UNCHANGED <<storageVars, snap, last, accepted, num_gets, only_adds,
                 all_ok, view, chain, resVars, tr>>

(* lines 244-256 *)
StepCounters(p) ==
  /\ conc.th[p].pc = "counters"
  /\ LET item == conc.th[p].item
     IN IF item.count > capacity_items
        THEN /\ Leave(p, conc, "rejected")
             /\ UNCHANGED storageVars
        ELSE /\ Commit([Cur EXCEPT !.nta = @ + item.count,
                                   !.nts = @ + item.count,
                                   !.sb = @ + item.bytes])
             /\ Goto(p, conc, "loop")
  /\ UNCHANGED <<snap, num_offered, num_gets, only_adds, view, chain,
                 resVars, tr>>

(* the test of the while loop and, when it holds, one pass of its body *)
StepLoop(p) ==
  /\ conc.th[p].pc = "loop"
  /\ IF EvictCond(Cur)
     THEN LET r == EvictBody(Cur)
          IN /\ Commit(r)
             /\ IF r.exc # "none" THEN Leave(p, conc, r.exc)
                ELSE Goto(p, conc, "loop")
     ELSE /\ UNCHANGED storageVars
          /\ Goto(p, conc, "index")
  /\ UNCHANGED <<snap, num_offered, num_gets, only_adds, view, chain,
                 resVars, tr>>

(* the slot add writes the new item to, line 281 *)
AddIndexOldest(s) == get_internal_index(s, 0)

AddIndex(s) == get_internal_index(s, s.ni)

StepIndex(p) ==
  /\ conc.th[p].pc = "index"
  /\ conc' = [conc EXCEPT !.th[p].new_idx = AddIndex(Cur),
                          !.th[p].pc = "set"]
  /\ UNCHANGED <<storageVars, snap, last, ghostVars, view, chain, resVars, tr>>

(* self._set(new_idx, item), line 282 *)
StepSet(p) ==
  /\ conc.th[p].pc = "set"
  /\ \E avail \in AvailSet :
       LET idx == conc.th[p].new_idx
           r == set_slot(Cur, idx, conc.th[p].item, avail)
           c == [conc EXCEPT !.clobbered = @ \/ (r.exc = "none"
                                                 /\ samples[idx] # None)]
       IN /\ Commit(r)
          /\ IF r.exc # "none" THEN Leave(p, c, r.exc)
             ELSE Goto(p, c, "inc")
  /\ UNCHANGED <<snap, num_offered, num_gets, only_adds, view, chain,
                 resVars, tr>>

(* lines 283-284 *)
StepInc(p) ==
  /\ conc.th[p].pc = "inc"
  /\ num_items' = num_items + 1
  /\ Leave(p, conc, IF num_items + 1 <= capacity_items THEN "none"
                    ELSE "AssertionError")
  /\ UNCHANGED <<capacity_ts, capacity_items, capacity_bytes,
                 eviction_started, oldest_item_idx, num_timesteps_added,
                 num_timesteps, hit_count, evicted_hit_stats, size_bytes,
                 samples, snap, num_offered, num_gets, only_adds, view, chain,
                 resVars, tr>>

(* storage[i] = item, run as one critical section while no add is in       *)
(* progress                                                                *)
SetC ==
  /\ \A p \in Threads : conc.th[p].pc = "idle"
  /\ SetN(MaxConcItems)

NextConc ==
  \/ \E p \in Threads :
       CallAdd(p) \/ StepCounters(p) \/ StepLoop(p) \/ StepIndex(p)
         \/ StepSet(p) \/ StepInc(p)
  \/ SetC

SpecConc == InitConc /\ [][NextConc]_vars

(* ======================= properties ======================= *)

(* C1: after any sequence of completed add, get and set operations,         *)
(* num_timesteps <= capacity_ts and size_bytes <= capacity_bytes hold for   *)
(* each bound that is finite.                                               *)
C1_CapacityBoundsHold ==
  all_ok => /\ ~Exceeds(num_timesteps, capacity_ts)
            /\ ~Exceeds(size_bytes, capacity_bytes)

(* C2: num_items never exceeds capacity_items; the assertion that ends add  *)
(* never fails (a failing one would leave num_items = capacity_items + 1).  *)
C2_ItemsWithinCapacity ==
  /\ num_items <= capacity_items
  /\ ~(last.op = "add" /\ last.exc = "AssertionError" /\ num_items > 0)

C2_Witness ==
  /\ last.op = "add" /\ last.exc = "none" /\ last.dropped = 1
  /\ num_items = capacity_items
  /\ capacity_items > 1

(* The ids of a sequence of items *)
Ids(items) == [k \in 1..Len(items) |-> items[k].id]

Suffix(seq, n) == SubSeq(seq, Len(seq) - n + 1, Len(seq))

(* C3: while only add (and get) has been called, the logical contents are   *)
(* the most recent num_items accepted items in insertion order; before      *)
(* eviction has started get(i) returns the i-th accepted item; and with     *)
(* capacity_items = 3 and no other bound, four accepted items leave the     *)
(* last three, eviction_started true and oldest_item_idx = 1.               *)
C3_FifoOrder ==
  only_adds =>
    /\ num_items <= Len(accepted)
    /\ Ids(Contents(Cur)) = Suffix(accepted, num_items)
    /\ ~eviction_started => Ids(Contents(Cur)) = accepted
    /\ (/\ ~eviction_started /\ last.op = "get" /\ last.exc = "none"
        /\ 0 <= last.i /\ last.i < num_items)
         => last.ret.id = accepted[last.i + 1]
    /\ (/\ all_ok /\ capacity_items = 3 /\ capacity_ts = Inf
        /\ capacity_bytes = Inf /\ Len(accepted) = 4)
         => /\ Ids(Contents(Cur)) = Suffix(accepted, 3)
            /\ eviction_started
            /\ oldest_item_idx = 1

C3_Witness ==
  /\ only_adds /\ all_ok /\ capacity_items = 3 /\ capacity_ts = Inf
  /\ capacity_bytes = Inf /\ accepted = <<1, 2, 3, 4>>
  /\ Ids(Contents(Cur)) = <<2, 3, 4>>

RECURSIVE SumCount(_, _)
SumCount(items, j) ==
  IF j = 0 THEN 0 ELSE items[j].count + SumCount(items, j - 1)

RECURSIVE SumBytes(_, _)
SumBytes(items, j) ==
  IF j = 0 THEN 0 ELSE items[j].bytes + SumBytes(items, j - 1)

(* the three bounds hold once the j oldest items are gone, the new item     *)
(* being counted in the timesteps and bytes but not yet in num_items        *)
FitsAfter(s, item, j) ==
  /\ ~Exceeds(s.nts + item.count - SumCount(Contents(s), j), s.ct)
  /\ ~Exceeds(s.sb + item.bytes - SumBytes(Contents(s), j), s.cb)
  /\ s.ni - j < s.ci

FitsAlone(s, item) ==
  /\ item.count <= s.ci
  /\ ~Exceeds(item.count, s.ct)
  /\ ~Exceeds(item.bytes, s.cb)

(* C4: an add that returns after storing an item that fits every bound on   *)
(* its own has evicted exactly the smallest number k of oldest items after  *)
(* which the three bounds hold, and on return the three bounds hold.        *)
C4_MinimalEviction ==
  [][(last'.op = "add" /\ last'.exc = "none" /\ FitsAlone(Cur, last'.item))
       => LET k == num_items + 1 - num_items'
              item == last'.item
          IN /\ k >= 0 /\ k <= num_items
             /\ FitsAfter(Cur, item, k)
             /\ \A j \in 0..(k - 1) : ~FitsAfter(Cur, item, j)
             /\ Contents(Cur)' =
                  SubSeq(Contents(Cur), k + 1, num_items) \o <<item>>
             /\ ~Exceeds(num_timesteps', capacity_ts')
             /\ ~Exceeds(size_bytes', capacity_bytes')
             /\ num_items' <= capacity_items']_vars

C4_Witness ==
  /\ last.op = "add" /\ last.exc = "none" /\ last.dropped >= 2
  /\ FitsAlone(Cur, last.item)

(* C5: when the resource guard rejects the write of add or set, every field *)
(* of the storage is as it was before the call.                             *)
C5_GuardRejectionLeavesState ==
  [][(last'.op \in {"add", "set"} /\ last'.exc = "ValueError")
       => UNCHANGED storageVars]_vars

(* C6: get(i) and set(i, item) with i outside [0, len) fail with an         *)
(* out-of-range error and leave the storage unchanged.                      *)
C6_OutOfRangeRejected ==
  [][(/\ last'.op \in {"get", "set"}
      /\ (last'.i < 0 \/ last'.i >= num_items))
       => (last'.exc = "IndexError" /\ UNCHANGED storageVars)]_vars

(* What Python slicing yields on a sequence of length n: the indices of     *)
(* slice(start, stop, step).indices(n).                                     *)
Min(a, b) == IF a <= b THEN a ELSE b

PyClamp(x, n, lower, upper) ==
  IF x < 0 THEN Max(x + n, lower) ELSE Min(x, upper)

PySliceIndices(n, sl) ==
  LET step == IF sl.step = <<>> THEN 1 ELSE sl.step[1]
      lower == IF step < 0 THEN 0 - 1 ELSE 0
      upper == IF step < 0 THEN n - 1 ELSE n
      start == IF sl.start = <<>> THEN (IF step < 0 THEN upper ELSE lower)
               ELSE PyClamp(sl.start[1], n, lower, upper)
      stop == IF sl.stop = <<>> THEN (IF step < 0 THEN lower ELSE upper)
              ELSE PyClamp(sl.stop[1], n, lower, upper)
  IN PyRange(start, stop, step)

(* C7: for every parent length and every slice with step # 0 the index list *)
(* of the view is the one Python slicing yields.                            *)
C7_ViewMatchesPythonSlicing ==
  (view # <<>> /\ view.built /\ view.slice.step # <<0>>)
    => view.idx_map = PySliceIndices(view.len, view.slice)

(* C8: restoring a snapshot whose slot array has not been written since it  *)
(* was taken gives back the capacities, counters, oldest_item_idx,          *)
(* eviction_started and logical contents of the snapshot's state, with a    *)
(* hit-count array of length capacity_items that is all zeros.              *)
C8_RestoreRoundTrip ==
  (last.op = "set_state" /\ snap # <<>> /\ samples = snap[1].g_samples)
    => LET d == snap[1]
           S == [Cur EXCEPT !.ct = d.ct, !.ci = d.ci, !.cb = d.cb,
                            !.ni = d.ni, !.old = d.old, !.es = d.es,
                            !.nta = d.nta, !.nts = d.nts, !.sb = d.sb,
                            !.smp = d.g_samples]
       IN /\ capacity_ts = d.ct /\ capacity_items = d.ci
          /\ capacity_bytes = d.cb
          /\ num_items = d.ni /\ num_timesteps = d.nts
          /\ num_timesteps_added = d.nta /\ size_bytes = d.sb
          /\ oldest_item_idx = d.old /\ eviction_started = d.es
          /\ Contents(Cur) = Contents(S)
          /\ DOMAIN hit_count = 0..(capacity_items - 1)
          /\ \A k \in DOMAIN hit_count : hit_count[k] = 0

C8_Witness ==
  /\ last.op = "set_state" /\ snap # <<>> /\ samples = snap[1].g_samples
  /\ \E k \in DOMAIN snap[1].g_hit_count : snap[1].g_hit_count[k] > 0
  /\ eviction_started /\ num_items > 1

(* C9: a successful get(i), 0 <= i < num_items, returns the item of slot    *)
(* (oldest_item_idx + i) mod capacity_items and changes nothing but that    *)
(* slot's hit count, which grows by 1; two consecutive get(i) return the    *)
(* same item.                                                               *)
C9_GetFrame ==
  [][(last'.op = "get" /\ last'.exc = "none"
      /\ 0 <= last'.i /\ last'.i < num_items)
       => LET slot == (oldest_item_idx + last'.i) % capacity_items
          IN /\ last'.ret = samples[slot]
             /\ hit_count' = [hit_count EXCEPT ![slot] = @ + 1]
             /\ UNCHANGED <<capacity_ts, capacity_items, capacity_bytes,
                            eviction_started, num_items, oldest_item_idx,
                            num_timesteps_added, num_timesteps,
                            evicted_hit_stats, size_bytes, samples>>
             /\ (last.op = "get" /\ last.exc = "none" /\ last.i = last'.i)
                  => last'.ret = last.ret]_vars

C9_Witness ==
  /\ last.op = "get" /\ last.exc = "none"
  /\ 0 < last.i /\ last.i < num_items
  /\ oldest_item_idx > 0
  /\ hit_count[(oldest_item_idx + last.i) % capacity_items] = 2
  /\ last.ret # None

(* C10: a successful set(i, item) replaces exactly the item at logical      *)
(* index i; num_items, oldest_item_idx and eviction_started are unchanged,  *)
(* num_timesteps and size_bytes change by new minus old, the lifetime       *)
(* counter grows by item.count and the slot's hit count is 0.               *)
C10_SetFrame ==
  [][(last'.op = "set" /\ last'.exc = "none")
       => LET i == last'.i
              item == last'.item
              slot == (oldest_item_idx + i) % capacity_items
              old_item == samples[slot]
          IN /\ eviction_started /\ 0 <= i /\ i < num_items
             /\ Contents(Cur)' = [Contents(Cur) EXCEPT ![i + 1] = item]
             /\ samples' = [samples EXCEPT ![slot] = item]
             /\ UNCHANGED <<num_items, oldest_item_idx, eviction_started,
                            capacity_ts, capacity_items, capacity_bytes>>
             /\ num_timesteps' = num_timesteps + item.count - old_item.count
             /\ size_bytes' = size_bytes + item.bytes - old_item.bytes
             /\ num_timesteps_added' = num_timesteps_added + item.count
             /\ hit_count' = [hit_count EXCEPT ![slot] = 0]]_vars

C10_Witness ==
  /\ last.op = "set" /\ last.exc = "none"
  /\ 0 < last.i /\ num_items > 1
  /\ samples[(oldest_item_idx + last.i) % capacity_items] = last.item
  /\ num_timesteps # num_items

(* C11: set(i, item) with 0 <= i < num_items while eviction_started is      *)
(* false fails with the illegal-state error (RuntimeError) and leaves every *)
(* field of the storage unchanged.                                          *)
C11_SetBeforeEviction ==
  [][(/\ last'.op = "set" /\ 0 <= last'.i /\ last'.i < num_items
      /\ ~eviction_started)
       => (last'.exc = "RuntimeError" /\ UNCHANGED storageVars)]_vars

C11_Witness ==
  /\ last.op = "set" /\ last.exc = "RuntimeError"
  /\ ~eviction_started /\ num_items > 1 /\ last.i > 0

(* C12: add(item) with item.count > capacity_items returns without an error *)
(* and without storing the item: no field of the storage changes.           *)
C12_OversizeAddIsNoOp ==
  [][(last'.op = "add" /\ last'.item.count > capacity_items)
       => (/\ last'.exc = "rejected"
           /\ UNCHANGED storageVars
           /\ accepted' = accepted)]_vars

C12_Witness ==
  /\ last.op = "add" /\ last.exc = "rejected"
  /\ last.item.count > capacity_items
  /\ num_items > 0

(* C20: add never finds the storage empty inside its eviction loop: for     *)
(* every item with item.count <= capacity_items the assertion               *)
(* num_items > 0 holds, and an add that returns has stored the item.        *)
C20_AddNeverEvictsFromEmpty ==
  [][(last'.op = "add" /\ last'.item.count <= capacity_items)
       => (/\ last'.exc # "AssertionError"
           /\ last'.exc = "none"
                => (num_items' > 0 /\ Contents(Cur)'[num_items'] = last'.item))]_vars

(* C13: on a view, each of add, set, delete_slot, get_state and set_state
   raises RuntimeError, for every view and every parent state, and neither
   the view's index list nor the parent storage changes. *)
C13_ViewRejectsMutation ==
  [][(last'.op \in ViewMutators)
       => (last'.exc = "RuntimeError" /\ UNCHANGED <<storageVars, chain>>)]_vars

C13_Witness ==
  /\ last.op = "view_set" /\ last.exc = "RuntimeError"
  /\ Len(chain) = 2 /\ Len(chain[2]) > 0
  /\ num_items > 0

ViewOps == {"view", "view_len", "view_get"} \cup ViewMutators

(* C14 as stated: no operation on a view changes any state of the parent
   storage, hit counts included. *)
C14_ViewLeavesParent ==
  [][(last'.op \in ViewOps) => UNCHANGED storageVars]_vars

(* C14: no operation on a view changes the items, the counters,
   oldest_item_idx or eviction_started of the parent storage; construction,
   len, sub-slicing, a rejected mutation and a read that does not return
   leave the hit counts unchanged as well, while an indexed read that
   returns adds one to the hit count of the slot holding the item it
   returns and changes no other hit count. *)
C14_ViewReadCountsHit ==
  [][(last'.op \in ViewOps)
       => (/\ UNCHANGED <<capacity_ts, capacity_items, capacity_bytes,
                          eviction_started, num_items, oldest_item_idx,
                          num_timesteps_added, num_timesteps,
                          evicted_hit_stats, size_bytes, samples>>
           /\ IF last'.op = "view_get" /\ last'.exc = "none"
              THEN \E idx \in 0..(capacity_items - 1) :
                     /\ samples[idx] = last'.ret
                     /\ hit_count' = [hit_count EXCEPT ![idx] = @ + 1]
              ELSE hit_count' = hit_count)]_vars

C14_Witness ==
  /\ last.op = "view_get" /\ last.exc = "none"
  /\ Len(chain) = 2
  /\ num_items = 2
  /\ last.ret.id = 2

(* the number of items removed from the storage so far: every removal, by
   the eviction loop of add or by __setitem__, pushes two values *)
NumRemoved == Len(evicted_hit_stats) \div 2

(* C15: once more than capacity_items items have been offered to the
   reservoir buffer, every item ever offered is in the retained set with the
   same probability capacity_items / num_add_calls.  These probabilities add
   up to capacity_items, the expected size of the retained set; the set
   never holds more than capacity_items items, so whatever the draws were it
   holds exactly capacity_items items. *)
C15_UniformRetention ==
  (OnlyOffers /\ num_add_calls > capacity_items) => num_items = capacity_items

(* C16: whenever the reservoir buffer forwards an offered item to the
   storage's add (eviction_started is false) the storage has a free slot,
   num_items < capacity_items, and after any sequence of offered items the
   number of items removed from the storage equals num_evicted. *)
C16_ForwardFindsFreeSlot ==
  [][(last'.op = "offer")
       => (/\ ~eviction_started => num_items < capacity_items
           /\ OnlyOffers' => NumRemoved' = num_evicted')]_vars

(* C17: for an item offered while eviction_started is true the index j is
   drawn from 0..n-1, n the add counter after its increment; if
   j < len(storage) the item replaces logical slot j and num_evicted grows
   by 1, otherwise the storage and num_evicted are unchanged. *)
C17_DrawAndReplace ==
  [][(last'.op = "offer" /\ eviction_started)
       => LET j == last'.i
          IN /\ j \in 0..(num_add_calls' - 1)
             /\ IF j < num_items
                THEN /\ num_evicted' = num_evicted + 1
                     /\ num_items' = num_items
                     /\ Contents(Cur)'[j + 1] = last'.item
                ELSE UNCHANGED <<storageVars, num_evicted>>]_vars

(* C18: an item offered while eviction_started is false is stored by the
   storage's add: the call returns, the item is the newest item of the
   storage and num_evicted is unchanged. *)
C18_ForwardStores ==
  [][(last'.op = "offer" /\ ~eviction_started)
       => (/\ last'.exc = "none"
           /\ num_items' > 0
           /\ Contents(Cur)'[num_items'] = last'.item
           /\ num_evicted' = num_evicted)]_vars

(* C19: num_add_calls is the number of items offered, num_evicted the number
   of offered items that overwrote a slot through set, num_evicted <=
   num_add_calls, and neither counter ever decreases. *)
C19_CountersCount ==
  [][/\ num_add_calls' = num_res_offers'
     /\ num_evicted' = num_overwrites'
     /\ num_evicted' <= num_add_calls'
     /\ num_add_calls' >= num_add_calls
     /\ num_evicted' >= num_evicted]_vars

(* C21: every indexed read terminates: for every integer index and every
   reachable state, an empty storage and an empty view included, get(i) on
   a storage or on a view returns an item or raises an error. *)
C21_ReadsTerminate ==
  (last.op \in {"get", "view_get"}) => last.exc # "diverges"

(* C22: a snapshot is isolated from later operations: after get_state in
   state S, any add and set calls (here: calls that all return normally),
   and set_state of that snapshot, the logical contents and the counters of
   the storage are those of S. *)
C22_SnapshotIsolated ==
  (last.op = "set_state" /\ snap # <<>> /\ all_ok)
    => LET d == snap[1]
           S == [Cur EXCEPT !.ct = d.ct, !.ci = d.ci, !.cb = d.cb,
                            !.ni = d.ni, !.old = d.old, !.es = d.es,
                            !.nta = d.nta, !.nts = d.nts, !.sb = d.sb,
                            !.smp = d.g_samples]
       IN /\ num_items = d.ni /\ num_timesteps = d.nts
          /\ num_timesteps_added = d.nta /\ size_bytes = d.sb
          /\ oldest_item_idx = d.old /\ eviction_started = d.es
          /\ Contents(Cur) = Contents(S)

(* the physical slots of the logical indices 0 .. num_items-1 *)
LogicalSlots ==
  {(oldest_item_idx + i) % capacity_items : i \in 0..(num_items - 1)}

(* C23: after every add, get or set that completed successfully num_timesteps
   is the sum of count over the items at the logical indices 0..num_items-1,
   size_bytes the sum of their byte sizes, and the occupied physical slots
   are exactly the slots (oldest_item_idx + i) mod capacity_items of these
   indices, every other slot holding the empty marker. *)
C23_CountersMatchContents ==
  (last.op \in {"add", "get", "set"} /\ last.exc = "none")
    => /\ num_timesteps = SumCount(Contents(Cur), num_items)
       /\ size_bytes = SumBytes(Contents(Cur), num_items)
       /\ \A k \in 0..(capacity_items - 1) :
            (samples[k] # None) <=> (k \in LogicalSlots)

(* C24: every eviction, by the eviction loop of add or by set, records
   exactly one value into evicted_hit_stats, the hit count the evicted slot
   had accumulated, so that the number of values recorded grows by the
   number of evictions performed, and the evicted slot's hit count is 0
   afterwards.  A returning add has evicted num_items + 1 - num_items'
   items, a returning set one item. *)
C24_OneStatPerEviction ==
  [][/\ (last'.op = "add" /\ last'.exc = "none")
          => Len(evicted_hit_stats') - Len(evicted_hit_stats)
               = num_items + 1 - num_items'
     /\ (last'.op = "set" /\ last'.exc = "none")
          => LET slot == (oldest_item_idx + last'.i) % capacity_items
             IN /\ evicted_hit_stats'
                     = Append(evicted_hit_stats, hit_count[slot])
                /\ hit_count'[slot] = 0]_vars

(* C25 as stated: set(i, item) logs its warning exactly when the replacement
   has fewer timesteps than the item it evicts, and, warning or not, goes on
   to write the new item. *)
C25_WarnsOnFewerTimesteps ==
  [][(/\ last'.op = "set" /\ 0 <= last'.i /\ last'.i < num_items
      /\ eviction_started
      /\ samples[(oldest_item_idx + last'.i) % capacity_items] # None)
       => LET old_item == samples[(oldest_item_idx + last'.i) % capacity_items]
          IN /\ last'.warn <=> (last'.item.count < old_item.count)
             /\ last'.exc = "none"
                  => Contents(Cur)'[last'.i + 1] = last'.item]_vars

(* C25: set(i, item) logs its warning exactly when the replacement has more
   timesteps than the item it evicts (item.count > evicted.count); warning
   or not it goes on to the write of the new item, which stores it at
   logical index i whenever the call returns, and fails with the resource
   guard's error for the same items with and without the warning. *)
C25_WarnsOnMoreTimesteps ==
  [][(/\ last'.op = "set" /\ 0 <= last'.i /\ last'.i < num_items
      /\ eviction_started
      /\ samples[(oldest_item_idx + last'.i) % capacity_items] # None)
       => LET old_item == samples[(oldest_item_idx + last'.i) % capacity_items]
          IN /\ last'.warn <=> (last'.item.count > old_item.count)
             /\ last'.exc \in {"none", "ValueError", "ZeroDivisionError"}
             /\ last'.exc = "none"
                  => Contents(Cur)'[last'.i + 1] = last'.item]_vars

C25_Witness ==
  /\ last.op = "set" /\ last.exc = "none" /\ last.warn
  /\ last.item.count = 2
  /\ samples[(oldest_item_idx + last.i) % capacity_items] = last.item

(* C27: eviction_started is false in a newly constructed storage, becomes
   true in exactly the add call that performs the storage's first eviction,
   and once true remains true through every later add, get and set. *)
C27_EvictionStartedLatches ==
  [][/\ last.op = "init" => ~eviction_started
     /\ eviction_started => eviction_started'
     /\ (~eviction_started /\ eviction_started')
          => (/\ last'.op = "add"
              /\ evicted_hit_stats = <<>>
              /\ evicted_hit_stats' # <<>>)
     /\ (evicted_hit_stats = <<>> /\ evicted_hit_stats' # <<>>)
          => (last'.op = "add" /\ eviction_started')]_vars

C27_Witness ==
  /\ eviction_started
  /\ last.op = "set" /\ last.exc = "none"
  /\ num_gets > 0
  /\ accepted # <<>>

(* C28: for every oldest_item_idx in [0, capacity_items) and every i, p in
   [0, capacity_items): physical(i) = (oldest_item_idx + i) mod
   capacity_items lies in [0, capacity_items), logical(physical(i)) = i and
   physical(logical(p)) = p; both translations raise IndexError on a
   negative argument; and oldest_item_idx stays in [0, capacity_items) in
   every reachable state. *)
C28_IndexTranslation ==
  /\ 0 <= oldest_item_idx /\ oldest_item_idx < capacity_items
  /\ tr # <<>>
       => /\ tr.arg < 0
               => (tr.int.exc = "IndexError" /\ tr.ext.exc = "IndexError")
          /\ (0 <= tr.arg /\ tr.arg < capacity_items)
               => /\ tr.int = [exc |-> "none",
                               val |-> (tr.old + tr.arg) % capacity_items]
                  /\ tr.int.val \in 0..(capacity_items - 1)
                  /\ tr.ext.exc = "none"
                  /\ tr.ext.val \in 0..(capacity_items - 1)
                  /\ tr.ext_of_int = [exc |-> "none", val |-> tr.arg]
                  /\ tr.int_of_ext = [exc |-> "none", val |-> tr.arg]

C28_Witness ==
  /\ tr # <<>>
  /\ tr.old = 2 /\ tr.arg = 1
  /\ tr.int.val = 0 /\ tr.ext.val = 2
  /\ oldest_item_idx > 0

(* the number of physical slots that hold an item *)
Occupied == Cardinality({k \in DOMAIN samples : samples[k] # None})

(* no add is in progress *)
Quiescent == \A p \in Threads : conc.th[p].pc = "idle"

(* a state that violates the storage invariants: more items than
   capacity_items, or two added items written to the same slot, so that
   num_items differs from the number of occupied slots *)
ConcBad ==
  \/ num_items > capacity_items
  \/ conc.clobbered /\ num_items # Occupied

(* C26: when the steps of two add calls interleave freely a state violating
   the storage invariants is reachable (C26_Witness); when every add and
   every set runs as one critical section no such state is reachable:
   num_items never exceeds capacity_items, no add writes a slot that holds
   an item, and between calls that all returned normally num_items is the
   number of occupied slots. *)
C26_CriticalSectionPreventsRace ==
  (conc # <<>> /\ conc.mutex)
    => /\ ~ConcBad
       /\ ~conc.clobbered
       /\ (Quiescent /\ all_ok) => num_items = Occupied

C26_Witness ==
  /\ conc # <<>> /\ ~conc.mutex
  /\ Quiescent
  /\ num_items > capacity_items
  /\ conc.clobbered /\ num_items # Occupied

====
